---- MODULE Spec2Model ----
(***************************************************************************)
(* Model of my_algorithm.py, the Compute-to-Data record filter pipeline:   *)
(* main() reads the optional configuration, locates the input file,        *)
(* parses it as JSON, filters the records by threshold and writes the      *)
(* result to /data/outputs/results.json.                                   *)
(*                                                                         *)
(* Python values are records tagged by "kind"; a file's text is a sequence *)
(* of JSON tokens.  A call that may raise returns [ok, val, err].          *)
(***************************************************************************)
EXTENDS Integers, Sequences, FiniteSets, TLC

(* ------------------------------ bounds --------------------------------- *)
\* longest record list handed to user_algorithm in SpecFilter
MaxLen == 3
\* longest record list stored in an input file of the pipeline (Spec)
MaxDocLen == 2
\* most entries under /data/inputs
MaxEntries == 2

(* --------------------------- Python values ----------------------------- *)
None == [kind |-> "none"]
PyInt(n) == [kind |-> "int", n |-> n]
PyStr(s) == [kind |-> "str", s |-> s]
\* a dict is a function from its keys to values; {} is the empty function
PyDict(d) == [kind |-> "dict", d |-> d]
PyList(items) == [kind |-> "list", items |-> items]
EmptyDict == PyDict(<<>>)

Ok(v) == [ok |-> TRUE, val |-> v, err |-> "none"]
Raise(e) == [ok |-> FALSE, val |-> None, err |-> e]

(* ------------------------------ JSON text ------------------------------ *)
NumText == (0 :> "0") @@ (1 :> "1") @@ (3 :> "3") @@ (5 :> "5") @@ (7 :> "7") @@ (10 :> "10")
StrText == ("value" :> "\"value\"") @@ ("threshold" :> "\"threshold\"") @@ ("x" :> "\"x\"")

\* newline followed by the indentation of nesting level k (indent=2)
NL(k) == CASE k = 0 -> "\n" [] k = 1 -> "\n  " [] OTHER -> "\n    "
Whitespace == {NL(0), NL(1), NL(2)}

RECURSIVE json_dump(_, _)
RECURSIVE DumpItems(_, _)
RECURSIVE DumpMembers(_, _, _)
\* the elements of a non-empty list, each on its own indented line
DumpItems(items, level) ==
    IF Len(items) = 1
    THEN json_dump(items[1], level)
    ELSE json_dump(items[1], level) \o <<",", NL(level)>> \o DumpItems(Tail(items), level)
\* the members of a non-empty dict
DumpMembers(d, keys, level) ==
    LET k == CHOOSE x \in keys : TRUE
        member == <<StrText[k], ": ">> \o json_dump(d[k], level)
    IN  IF keys = {k}
        THEN member
        ELSE member \o <<",", NL(level)>> \o DumpMembers(d, keys \ {k}, level)
\* json.dump(v, f, indent=2) at nesting level `level`
json_dump(v, level) ==
    CASE v.kind = "int" -> <<NumText[v.n]>>
      [] v.kind = "str" -> <<StrText[v.s]>>
      [] v.kind = "list" ->
            IF v.items = <<>>
            THEN <<"[", "]">>
            ELSE <<"[", NL(level + 1)>> \o DumpItems(v.items, level + 1) \o <<NL(level), "]">>
      [] v.kind = "dict" ->
            IF DOMAIN v.d = {}
            THEN <<"{", "}">>
            ELSE <<"{", NL(level + 1)>> \o DumpMembers(v.d, DOMAIN v.d, level + 1)
                    \o <<NL(level), "}">>

NumOf(tok) == CHOOSE n \in DOMAIN NumText : NumText[n] = tok
StrOf(tok) == CHOOSE s \in DOMAIN StrText : StrText[s] = tok
IsNumText(tok) == \E n \in DOMAIN NumText : NumText[n] = tok
IsStrText(tok) == \E s \in DOMAIN StrText : StrText[s] = tok

ParseFail == [ok |-> FALSE, val |-> None, rest |-> <<>>]
Parsed(v, rest) == [ok |-> TRUE, val |-> v, rest |-> rest]

RECURSIVE ParseValue(_)
RECURSIVE ParseItems(_, _)
RECURSIVE ParseMembers(_, _)
\* the elements of a list after "[" or ",", up to the closing "]"
ParseItems(toks, acc) ==
    LET r == ParseValue(toks) IN
    IF ~r.ok \/ r.rest = <<>> THEN ParseFail
    ELSE IF Head(r.rest) = "]" THEN Parsed(PyList(Append(acc, r.val)), Tail(r.rest))
    ELSE IF Head(r.rest) = "," THEN ParseItems(Tail(r.rest), Append(acc, r.val))
    ELSE ParseFail
\* the members of a dict after "{" or ",", up to the closing "}"
ParseMembers(toks, d) ==
    IF Len(toks) < 2 \/ ~IsStrText(toks[1]) \/ toks[2] # ": " THEN ParseFail
    ELSE LET r == ParseValue(SubSeq(toks, 3, Len(toks)))
             d2 == [k \in DOMAIN d \cup {StrOf(toks[1])} |->
                        IF k = StrOf(toks[1]) THEN r.val ELSE d[k]]
         IN  IF ~r.ok \/ r.rest = <<>> THEN ParseFail
             ELSE IF Head(r.rest) = "}" THEN Parsed(PyDict(d2), Tail(r.rest))
             ELSE IF Head(r.rest) = "," THEN ParseMembers(Tail(r.rest), d2)
             ELSE ParseFail
\* one JSON value at the head of toks
ParseValue(toks) ==
    IF toks = <<>> THEN ParseFail
    ELSE LET h == Head(toks)
             t == Tail(toks)
         IN  CASE IsNumText(h) -> Parsed(PyInt(NumOf(h)), t)
               [] IsStrText(h) -> Parsed(PyStr(StrOf(h)), t)
               [] h = "[" -> IF t # <<>> /\ Head(t) = "]"
                             THEN Parsed(PyList(<<>>), Tail(t))
                             ELSE ParseItems(t, <<>>)
               [] h = "{" -> IF t # <<>> /\ Head(t) = "}"
                             THEN Parsed(EmptyDict, Tail(t))
                             ELSE ParseMembers(t, <<>>)
               [] OTHER -> ParseFail

\* json.load(f): the decoded value, or JSONDecodeError
json_load(text) ==
    LET r == ParseValue(SelectSeq(text, LAMBDA tok : tok \notin Whitespace)) IN
    IF r.ok /\ r.rest = <<>> THEN Ok(r.val) ELSE Raise("JSONDecodeError")

(* --------------------------- the filesystem ---------------------------- *)
ConfigName == "algoCustomData.json"
\* names beginning with "." (glob's * and ** do not match them)
DotNames == {".hidden.json"}

File(path) == [path |-> path, isfile |-> TRUE]
Directory(path) == [path |-> path, isfile |-> FALSE]
\* /data/inputs/algoCustomData.json
ConfigEntry == File(<<ConfigName>>)
\* the entries that may exist under /data/inputs, as paths relative to it
FsEntries ==
    { ConfigEntry, File(<<"data.json">>), File(<<".hidden.json">>),
      Directory(<<"sub">>), File(<<"sub", ConfigName>>), File(<<"sub", "part.json">>) }

Range(seq) == {seq[i] : i \in DOMAIN seq}
RECURSIVE SeqsUpTo(_, _)
\* the sequences over S of length at most n
SeqsUpTo(S, n) ==
    IF n = 0 THEN {<<>>}
    ELSE LET shorter == SeqsUpTo(S, n - 1)
         IN  shorter \cup {Append(q, x) : q \in shorter, x \in S}

\* the orders in which a directory walk may list an input directory: no entry
\* twice, and a directory before the entries inside it
Walks ==
    { w \in SeqsUpTo(FsEntries, MaxEntries) :
        /\ \A i, j \in DOMAIN w : i # j => w[i] # w[j]
        /\ \A j \in DOMAIN w : Len(w[j].path) > 1 =>
              \E i \in 1..(j - 1) : w[i] = Directory(SubSeq(w[j].path, 1, Len(w[j].path) - 1)) }

\* texts a configuration file may hold
ConfigValues ==
    { EmptyDict, PyDict([threshold |-> PyInt(5)]), PyDict([threshold |-> PyStr("x")]),
      PyList(<<>>) }
Truncated == <<"[", "{">>
ConfigTexts == {json_dump(v, 0) : v \in ConfigValues} \cup {Truncated}

\* elements of an input list: records with or without `value`, and a number
Records == {EmptyDict} \cup {PyDict([value |-> PyInt(n)]) : n \in {1, 3, 5, 10}}
Elements == Records \cup {PyDict([value |-> PyStr("x")]), PyInt(7)}
\* texts the input file may hold
InputValues(n) == {PyList(q) : q \in SeqsUpTo(Elements, n)} \cup {EmptyDict}
InputTexts == {json_dump(v, 0) : v \in InputValues(MaxDocLen)} \cup {Truncated, <<>>}

NoFile == [exists |-> FALSE, text |-> <<>>]
FileWith(text) == [exists |-> TRUE, text |-> text]
\* /data/outputs before the run: absent, empty, or holding a results.json
PriorOutputs ==
    { [dir |-> FALSE, file |-> NoFile], [dir |-> TRUE, file |-> NoFile],
      [dir |-> TRUE, file |-> FileWith(json_dump(PyList(<<PyDict([value |-> PyInt(7)])>>), 0))],
      [dir |-> TRUE, file |-> FileWith(Truncated)] }

(* ------------------------------ the code ------------------------------- *)
VARIABLES
    pc,         \* the step main() executes next, or how the run ended
    walk,       \* the entries under /data/inputs, in directory-walk order
    cfgFile,    \* /data/inputs/algoCustomData.json
    outDir,     \* whether /data/outputs exists
    outFile,    \* /data/outputs/results.json
    prior,      \* outDir and outFile as they were before the run
    threshold,  \* main's local `threshold`
    inputPath,  \* main's local `input_file_path`
    inputText,  \* the text read from the input file
    data,       \* main's local `data`
    processed,  \* main's local `processed_data`
    stdout,     \* the lines printed so far
    exc,        \* the exception that escaped main, "none" if none did
    steps       \* the steps executed so far, in order

vars == <<pc, walk, cfgFile, outDir, outFile, prior, threshold, inputPath,
          inputText, data, processed, stdout, exc, steps>>

DefaultThreshold == 10
DefaultValue == 0

\* a lookup that always answers with the default
dict_get_default(obj, key, default) ==
    IF obj.kind # "dict" THEN Raise("AttributeError") ELSE Ok(default)
\* obj.get(key, default)
dict_get(obj, key, default) ==
    IF obj.kind # "dict" THEN Raise("AttributeError")
    ELSE Ok(IF key \in DOMAIN obj.d THEN obj.d[key] ELSE default)

\* a > b, raising TypeError when Python does not order the operands
PyGt(a, b) ==
    IF a.kind = "int" /\ b.kind = "int" THEN Ok(a.n > b.n)
    ELSE IF a.kind = "str" /\ b.kind = "str" /\ a.s = b.s THEN Ok(FALSE)
    ELSE Raise("TypeError")
\* a >= b, raising TypeError when Python does not order the operands
\* (two strings are compared only when equal: the model holds one string)
PyGe(a, b) ==
    IF a.kind = "int" /\ b.kind = "int" THEN Ok(a.n >= b.n)
    ELSE IF a.kind = "str" /\ b.kind = "str" /\ a.s = b.s THEN Ok(TRUE)
    ELSE Raise("TypeError")

RECURSIVE Comprehension(_, _, _)
\* [item for item in items if item.get("value", 0) >= threshold], evaluated
\* left to right; the first element that raises ends the evaluation
Comprehension(items, t, acc) ==
    IF items = <<>> THEN Ok(PyList(acc))
    ELSE LET item == Head(items)
             v == dict_get(item, "value", PyInt(DefaultValue))
             c == IF v.ok THEN PyGe(v.val, t) ELSE v
         IN  IF ~c.ok THEN c
             ELSE Comprehension(Tail(items), t, IF c.val THEN Append(acc, item) ELSE acc)

\* a filter that loses the first record of its input
user_algorithm_skip(d, t) ==
    IF d.kind # "list" THEN Raise("ValueError")
    ELSE Comprehension(IF d.items = <<>> THEN <<>> ELSE Tail(d.items), t, <<>>)
user_algorithm(d, t) ==
    IF d.kind # "list" THEN Raise("ValueError")
    ELSE Comprehension(d.items, t, <<>>)

\* the configuration: the decoded file if it is there, {} otherwise
read_custom_params(file) ==
    IF file.exists THEN json_load(file.text) ELSE Ok(EmptyDict)

_ishidden(name) == name \in DotNames
\* glob.glob("/data/inputs/**/*", recursive=True): the walk without the
\* entries that have a dot name on their path
glob(w) == SelectSeq(w, LAMBDA e : \A i \in DOMAIN e.path : ~_ishidden(e.path[i]))
basename(path) == path[Len(path)]
Path(path) == [kind |-> "path", path |-> path]

\* the first enumerated regular file that is not the configuration file
find_input_file(w) ==
    LET all_files == glob(w)
        candidate_files ==
            SelectSeq(all_files, LAMBDA f : f.isfile /\ basename(f.path) # ConfigName)
    IN  IF candidate_files = <<>> THEN None ELSE Path(candidate_files[1].path)

\* open(file_path, 'r') and json.load
parse_json_file(file_path, text) ==
    IF file_path.kind # "path" THEN Raise("TypeError") ELSE json_load(text)

\* open(path, 'a'): the file keeps its content
open_a(file) == FileWith(file.text)
\* open(path, 'w'): the file is created or truncated
open_w(file) == FileWith(<<>>)

\* the filesystem after write_results(d)
write_results(d) ==
    [dir |-> TRUE, file |-> FileWith(open_w(outFile).text \o json_dump(d, 0))]

print(line) == stdout' = Append(stdout, line)
executed(step) == steps' = Append(steps, step)

Init ==
    /\ pc = "LoadConfig"
    /\ walk \in Walks
    /\ cfgFile \in IF ConfigEntry \in Range(walk)
                   THEN {FileWith(t) : t \in ConfigTexts}
                   ELSE {NoFile}
    /\ prior \in PriorOutputs
    /\ outDir = prior.dir
    /\ outFile = prior.file
    /\ threshold = None
    /\ inputPath = None
    /\ inputText = <<>>
    /\ data = None
    /\ processed = None
    /\ stdout = <<>>
    /\ exc = "none"
    /\ steps = <<>>

\* 1. Read custom parameters (outside any try)
LoadConfig ==
    /\ pc = "LoadConfig"
    /\ executed("LoadConfig")
    /\ LET custom_params == read_custom_params(cfgFile)
           t == IF custom_params.ok
                THEN dict_get(custom_params.val, "threshold", PyInt(DefaultThreshold))
                ELSE custom_params
       IN  IF t.ok
           THEN /\ threshold' = t.val
                /\ print("[INFO] Using threshold")
                /\ pc' = "LocateInput"
                /\ exc' = exc
           ELSE /\ pc' = "Crashed"
                /\ exc' = t.err
                /\ UNCHANGED <<threshold, stdout>>
    /\ UNCHANGED <<walk, cfgFile, outDir, outFile, prior, inputPath, inputText,
                   data, processed>>

\* a main that goes on to parse when no input file was found
LocateInputNoReturn ==
    /\ pc = "LocateInput"
    /\ executed("LocateInput")
    /\ inputPath' = find_input_file(walk)
    /\ print("[INFO] Found file")
    /\ pc' = "Parse"
    /\ UNCHANGED <<walk, cfgFile, outDir, outFile, prior, threshold, inputText,
                   data, processed, exc>>
\* 2. Locate input file
LocateInput ==
    /\ pc = "LocateInput"
    /\ executed("LocateInput")
    /\ inputPath' = find_input_file(walk)
    /\ IF inputPath' = None
       THEN /\ print("[ERROR] No input file found")
            /\ pc' = "Stopped"
       ELSE /\ print("[INFO] Found file")
            /\ pc' = "Parse"
    /\ UNCHANGED <<walk, cfgFile, outDir, outFile, prior, threshold, inputText,
                   data, processed, exc>>

\* a main that looks for the input again when it could not be parsed
ParseRetry ==
    /\ pc = "Parse"
    /\ executed("Parse")
    /\ \E text \in InputTexts :
          /\ inputText' = text
          /\ LET r == parse_json_file(inputPath, text)
             IN  IF r.ok
                 THEN /\ data' = r.val
                      /\ pc' = "Transform"
                      /\ stdout' = stdout
                 ELSE /\ print("[ERROR] Could not parse")
                      /\ pc' = "LocateInput"
                      /\ data' = data
    /\ UNCHANGED <<walk, cfgFile, outDir, outFile, prior, threshold, inputPath,
                   processed, exc>>
\* 3. Parse the JSON data (try / except Exception)
Parse ==
    /\ pc = "Parse"
    /\ executed("Parse")
    /\ \E text \in InputTexts :
          /\ inputText' = text
          /\ LET r == parse_json_file(inputPath, text)
             IN  IF r.ok
                 THEN /\ data' = r.val
                      /\ pc' = "Transform"
                      /\ stdout' = stdout
                 ELSE /\ print("[ERROR] Could not parse")
                      /\ pc' = "Stopped"
                      /\ data' = data
    /\ UNCHANGED <<walk, cfgFile, outDir, outFile, prior, threshold, inputPath,
                   processed, exc>>

\* a main without the try around the algorithm
TransformNoCatch ==
    /\ pc = "Transform"
    /\ executed("Transform")
    /\ LET r == user_algorithm(data, threshold)
       IN  IF r.ok
           THEN /\ processed' = r.val
                /\ print("[INFO] Processed records")
                /\ pc' = "Write"
                /\ exc' = exc
           ELSE /\ pc' = "Crashed"
                /\ exc' = r.err
                /\ UNCHANGED <<processed, stdout>>
    /\ UNCHANGED <<walk, cfgFile, outDir, outFile, prior, threshold, inputPath,
                   inputText, data>>
\* a main that writes an empty result when the algorithm fails
TransformWriteOnError ==
    /\ pc = "Transform"
    /\ executed("Transform")
    /\ LET r == user_algorithm(data, threshold)
       IN  IF r.ok
           THEN /\ processed' = r.val
                /\ print("[INFO] Processed records")
                /\ pc' = "Write"
                /\ UNCHANGED <<outDir, outFile>>
           ELSE /\ print("[ERROR] Algorithm logic failed")
                /\ pc' = "Stopped"
                /\ processed' = processed
                /\ outDir' = write_results(PyList(<<>>)).dir
                /\ outFile' = write_results(PyList(<<>>)).file
    /\ UNCHANGED <<walk, cfgFile, prior, threshold, inputPath, inputText, data, exc>>
\* 4. Apply user algorithm logic (try / except Exception)
Transform ==
    /\ pc = "Transform"
    /\ executed("Transform")
    /\ LET r == user_algorithm(data, threshold)
       IN  IF r.ok
           THEN /\ processed' = r.val
                /\ print("[INFO] Processed records")
                /\ pc' = "Write"
           ELSE /\ print("[ERROR] Algorithm logic failed")
                /\ pc' = "Stopped"
                /\ processed' = processed
    /\ UNCHANGED <<walk, cfgFile, outDir, outFile, prior, threshold, inputPath,
                   inputText, data, exc>>

\* 5. Write results to /data/outputs
Write ==
    /\ pc = "Write"
    /\ executed("Write")
    /\ outDir' = write_results(processed).dir
    /\ outFile' = write_results(processed).file
    /\ print("[INFO] Results written")
    /\ pc' = "Done"
    /\ UNCHANGED <<walk, cfgFile, prior, threshold, inputPath, inputText, data,
                   processed, exc>>

Next == LoadConfig \/ LocateInput \/ Parse \/ Transform \/ Write

\* one run of main()
Spec == Init /\ [][Next]_vars

(* ----------------- the algorithm on longer record lists ----------------- *)
\* the runs that reach step 4, with any list of up to MaxLen elements read
\* from /data/inputs/data.json and the threshold absent or set in the file
InitFilter ==
    /\ pc = "Transform"
    /\ \E withConfig \in BOOLEAN :
          IF withConfig
          THEN /\ walk = <<ConfigEntry, File(<<"data.json">>)>>
               /\ \E t \in {PyInt(5), PyStr("x")} :
                     /\ cfgFile = FileWith(json_dump(PyDict([threshold |-> t]), 0))
                     /\ threshold = t
          ELSE /\ walk = <<File(<<"data.json">>)>>
               /\ cfgFile = NoFile
               /\ threshold = PyInt(DefaultThreshold)
    /\ prior \in PriorOutputs
    /\ outDir = prior.dir
    /\ outFile = prior.file
    /\ inputPath = Path(<<"data.json">>)
    /\ data \in {PyList(q) : q \in SeqsUpTo(Elements, MaxLen)}
    /\ inputText = json_dump(data, 0)
    /\ processed = None
    /\ stdout = <<"[INFO] Using threshold", "[INFO] Found file">>
    /\ exc = "none"
    /\ steps = <<"LoadConfig", "LocateInput", "Parse">>

NextFilter == Transform \/ Write

SpecFilter == InitFilter /\ [][NextFilter]_vars

(* ------------------------------ properties ----------------------------- *)
Executed(step) == step \in Range(steps)
LastLine == stdout[Len(stdout)]
Rec(n) == PyDict([value |-> PyInt(n)])
\* a list whose elements are mappings with a numeric `value` or none
IsRecordList(d) ==
    /\ d.kind = "list"
    /\ \A i \in DOMAIN d.items :
          /\ d.items[i].kind = "dict"
          /\ "value" \in DOMAIN d.items[i].d => d.items[i].d.value.kind = "int"
ValueOf(r) == IF "value" \in DOMAIN r.d THEN r.d.value.n ELSE 0

\* C1: for a list of records and a numeric threshold, the algorithm returns
\* exactly the records with value >= threshold (0 when `value` is absent), in
\* their input order, nothing added, duplicated, altered or reordered.
C1_FilterExact ==
    (Executed("Transform") /\ IsRecordList(data) /\ threshold.kind = "int") =>
        /\ pc \in {"Write", "Done"}
        /\ processed = PyList(SelectSeq(data.items, LAMBDA r : ValueOf(r) >= threshold.n))
C1_Witness ==
    /\ pc = "Write"
    /\ threshold = PyInt(5)
    /\ data = PyList(<<Rec(10), Rec(3), Rec(5)>>)
    /\ processed = PyList(<<Rec(10), Rec(5)>>)

\* C2: the filter is idempotent: filtering its own output again with the same
\* threshold returns that output.
C2_Idempotent ==
    (Executed("Transform") /\ pc \in {"Write", "Done"}) =>
        user_algorithm(processed, threshold) = Ok(processed)
C2_Witness ==
    /\ pc = "Write"
    /\ processed.items # <<>>
    /\ Len(processed.items) < Len(data.items)

\* C3: a configuration file that is present but not valid JSON ends the run
\* with an [ERROR] line printed by main and a normal return, no exception
\* escaping, and no output file created.
C3_ConfigErrorReported ==
    (Executed("LoadConfig") /\ cfgFile.exists /\ ~json_load(cfgFile.text).ok) =>
        /\ pc = "Stopped"
        /\ exc = "none"
        /\ stdout # <<>>
        /\ LastLine \in {"[ERROR] No input file found", "[ERROR] Could not parse",
                         "[ERROR] Algorithm logic failed"}
        /\ outFile.exists => prior.file.exists

\* C4: when find_input_file returns None, main reports it and returns
\* normally: Parse, Transform and Write are not executed, nothing is raised
\* and no output file is created.
C4_NoInputStops ==
    (Executed("LocateInput") /\ inputPath = None) =>
        /\ pc = "Stopped"
        /\ exc = "none"
        /\ LastLine = "[ERROR] No input file found"
        /\ steps = <<"LoadConfig", "LocateInput">>
        /\ outDir = prior.dir
        /\ outFile = prior.file
C4_Witness ==
    /\ pc = "Stopped"
    /\ inputPath = None
    /\ walk = <<ConfigEntry>>
    /\ ~prior.file.exists

\* C5: the threshold handed to the filter is the configuration's `threshold`
\* when the key is present, and 10 when the file is absent or the key is
\* missing; with no config file and input [{"value":1},{}] the output written
\* is the empty list.
C5_Threshold ==
    /\ (Executed("LoadConfig") /\ pc # "Crashed") =>
          threshold =
             IF cfgFile.exists /\ "threshold" \in DOMAIN json_load(cfgFile.text).val.d
             THEN json_load(cfgFile.text).val.d.threshold
             ELSE PyInt(10)
    /\ (pc = "Done" /\ ~cfgFile.exists /\ data = PyList(<<Rec(1), EmptyDict>>)) =>
          outFile = FileWith(<<"[", "]">>)
C5_Witness ==
    /\ pc = "Done"
    /\ ~cfgFile.exists
    /\ data = PyList(<<Rec(1), EmptyDict>>)
    /\ threshold = PyInt(10)
    /\ outFile = FileWith(<<"[", "]">>)

\* C6: every failure of Parse (input not valid JSON) or of Transform (top
\* level not a list, an element that is not a mapping, operands that cannot
\* be compared) is caught in main, reported with an [ERROR] line and followed
\* by a normal return; none escapes main.
C6_FailuresCaught ==
    /\ (Executed("Parse") /\ ~json_load(inputText).ok) =>
          pc = "Stopped" /\ exc = "none" /\ LastLine = "[ERROR] Could not parse"
    /\ (Executed("Transform") /\ ~user_algorithm(data, threshold).ok) =>
          pc = "Stopped" /\ exc = "none" /\ LastLine = "[ERROR] Algorithm logic failed"
C6_Witness ==
    /\ pc = "Stopped"
    /\ Executed("Transform")
    /\ data = EmptyDict
    /\ user_algorithm(data, threshold).err = "ValueError"

\* C7: a run that does not reach Done never invokes write_results:
\* /data/outputs/results.json exists or not, and holds, what it did before.
C7_NoWriteUnlessDone ==
    pc # "Done" =>
        /\ ~Executed("Write")
        /\ outDir = prior.dir
        /\ outFile = prior.file
C7_Witness ==
    /\ pc = "Stopped"
    /\ Executed("Transform")
    /\ prior.file.exists
    /\ outFile = prior.file

Order == <<"LoadConfig", "LocateInput", "Parse", "Transform", "Write">>
\* C8: the steps run at most once each and in the order LoadConfig,
\* LocateInput, Parse, Transform, Write; Write runs only after a file was
\* found, parsed and transformed; after Report&Stop or Done nothing runs.
C8_Linear ==
    /\ [](/\ Len(steps) <= Len(Order)
          /\ steps = SubSeq(Order, 1, Len(steps))
          /\ Executed("Write") =>
                /\ inputPath # None
                /\ json_load(inputText).ok
                /\ user_algorithm(data, threshold).ok)
    /\ [][pc \notin {"Stopped", "Done"}]_vars
C8_Witness ==
    /\ pc = "Done"
    /\ steps = Order

\* C9: on a run that reaches Done, whatever /data/outputs held before, the
\* directory exists and results.json holds exactly the filtered list, the
\* prior content replaced.
C9_OutputExact ==
    pc = "Done" =>
        /\ outDir
        /\ outFile.exists
        /\ outFile.text = json_dump(user_algorithm(data, threshold).val, 0)
        /\ json_load(outFile.text) = user_algorithm(data, threshold)
C9_Witness ==
    /\ pc = "Done"
    /\ prior.dir
    /\ prior.file.exists
    /\ prior.file.text # outFile.text
    /\ processed.items # <<>>

\* C10: find_input_file returns the first entry, in enumeration order, that
\* is a regular file whose base name is not algoCustomData.json, and None
\* exactly when /data/inputs holds no such entry.
C10_FirstNonConfigFile ==
    Executed("LocateInput") =>
        LET files == SelectSeq(walk, LAMBDA e : e.isfile /\ basename(e.path) # ConfigName)
        IN  inputPath = IF files = <<>> THEN None ELSE Path(files[1].path)

====
